---- MODULE Spec2Model ----
(***************************************************************************)
(* Model of the customer-management backend of devops-lab:                 *)
(*   - server.js: the connect-with-retry startup sequence, the timer that  *)
(*     registers the customer routes, the health route and the SIGTERM     *)
(*     handler;                                                            *)
(*   - customer.controller.js: the six customer handlers over the          *)
(*     customers table defined by the Customer model.                      *)
(* Time is kept as the remaining delay of each pending timer; the          *)
(* database is the customers table plus its id sequence.                   *)
(***************************************************************************)
EXTENDS Integers, Sequences, FiniteSets, TLC

VARIABLES
    retries,          \* server.js: let retries
    dbConnected,      \* server.js: let dbConnected
    conn,             \* pending promise of connectDB: "idle", "authenticating", "syncing"
    retryTimer,       \* ms left on setTimeout(connectDB, delay), NoTimer when none
    routeTimer,       \* ms left on the route registration timer, NoTimer when none
    routesRegistered, \* customer routes are in the middleware stack
    closing,          \* server.close() was called (SIGTERM received)
    exitCode,         \* Running, or the status given to process.exit
    inflight,         \* requests accepted by the server and not yet answered
    budget,           \* requests the clients have still to send
    table,            \* rows of the customers table
    seq,              \* next value of the id sequence (autoIncrement)
    clock,            \* logical time of the last write, source of createdAt/updatedAt
    lastResp,         \* the response sent last
    delays,           \* history: delays given to setTimeout(connectDB, delay)
    failures,         \* history: number of connection attempts that failed
    nCreated,         \* history: number of 201 responses
    nDeleted,         \* history: number of rows reported deleted by 200 responses
    fresh,            \* history: records returned by create, not updated or deleted since
    cleared,          \* history: a delete-all succeeded and no create has succeeded since
    gone,             \* history: ids whose record a delete-one removed
    nAccepted,        \* history: number of requests accepted
    nResp,            \* history: number of responses sent
    failedIn,         \* history: the call whose rejection ended the last attempt, "none" while an attempt runs
    outbox,           \* responses whose data-access call has settled and that are not yet sent
    deferred,         \* the run keeps the settling of a data-access call and the sending of the response apart
    availability_zones, \* network module: var.availability_zones
    vpc_cidr,         \* network module: var.vpc_cidr
    public,           \* network module: instances of aws_subnet.public, by count.index
    private,          \* network module: instances of aws_subnet.private, by count.index
    database          \* network module: instances of aws_subnet.database, by count.index

vars == <<retries, dbConnected, conn, retryTimer, routeTimer, routesRegistered,
          closing, exitCode, inflight, budget, table, seq, clock, lastResp,
          delays, failures, nCreated, nDeleted, fresh, cleared, gone,
          nAccepted, nResp, failedIn, outbox, deferred,
          availability_zones, vpc_cidr, public, private, database>>

netVars  == <<availability_zones, vpc_cidr, public, private, database>>
seqVars  == <<retries, dbConnected, conn, retryTimer, delays, failures, failedIn>>
dbVars   == <<table, seq, clock>>
histVars == <<nCreated, nDeleted, fresh, cleared, gone>>

----------------------------------------------------------------------------
(* Bounds of the model *)

\* requests sent by the clients in a run that starts with the process
LifecycleRequests == 1
\* requests sent by the clients in a run that starts with a ready server
CrudRequests == 3
\* requests sent in a run long enough to delete a record and reuse its id
LongRequests == 5
\* requests sent, and requests in flight together, in a run with deferred sending
ConcRequests == 2
ConcInflight == 2
\* requests in flight at the same time
MaxInflight == 1
\* values the id sequence may hand out
MaxSeq == 2
\* longest availability_zones list given to the network module
MaxZones == 12

----------------------------------------------------------------------------
(* Program constants *)

maxRetries == 10
BaseDelay == 5000
MaxDelay == 30000
RouteDelay == 1000

NoTimer == -1
Running == -1

Min(a, b) == IF a < b THEN a ELSE b

\* the delay of the catch branch of connectDB after attempt number n failed
DelayNoCap(n) == BaseDelay * n
Delay(n) == Min(BaseDelay * n, MaxDelay)

----------------------------------------------------------------------------
(* Values of request bodies and of record fields *)

UndefStr == "<undefined>"
NullStr == "<null>"
UndefInt == -2
NullInt == -1

FirstNames == {"Jane"}
LastNames == {"Doe"}
Ages == {30}
\* the clients of the model leave the address out: the column then holds null
Addresses == {}

Ids == 1..MaxSeq

\* JavaScript truthiness of a body field, as tested by !firstname
Falsy(v) == v \in {UndefStr, NullStr, ""}

NoBody == [kind |-> "none", msg |-> "", recs |-> <<>>, n |-> 0]
NoResp == [rq |-> 0, op |-> "none", id |-> 0, status |-> 0, body |-> NoBody]

CustomerOps == {"create", "findAll", "findOne", "update", "delete", "deleteAll"}
\* requests that make a layer of the stack raise an error: a POST whose JSON
\* body does not parse (express.json), and a GET /api/customers/%E0 whose id
\* does not decode (the /:id route of the customer router)
FaultOps == {"badjson", "badparam"}
Ops == CustomerOps \cup {"health"} \cup FaultOps

----------------------------------------------------------------------------
(* The startup sequence of server.js *)

SeqState ==
    IF exitCode = 1 THEN "FAILED"
    ELSE IF dbConnected THEN "READY"
    ELSE IF conn = "authenticating" THEN "AUTHENTICATING"
    ELSE IF conn = "syncing" THEN "SYNCING"
    ELSE "CONNECTING"

\* a CIDR block "a.b.c.d/len" is the tuple <<a, b, c, d, len>>
\* default of var.vpc_cidr, and the value the dev environment passes
DefaultVpcCidr == <<10, 0, 0, 0, 16>>

\* the server runs without the network module being applied: the variables
\* hold their defaults and no subnet exists
NoNetwork ==
    /\ availability_zones = <<>>
    /\ vpc_cidr = DefaultVpcCidr
    /\ public = <<>>
    /\ private = <<>>
    /\ database = <<>>

\* state after the top-level script of server.js has run: connectDB() was
\* called once, the route timer is set, the server listens
InitProcess ==
    /\ retries = 1
    /\ dbConnected = FALSE
    /\ conn = "authenticating"
    /\ retryTimer = NoTimer
    /\ routeTimer = RouteDelay
    /\ routesRegistered = FALSE
    /\ closing = FALSE
    /\ exitCode = Running
    /\ inflight = {}
    /\ table = {}
    /\ seq = 1
    /\ clock = 0
    /\ lastResp = NoResp
    /\ delays = <<>>
    /\ failures = 0
    /\ nCreated = 0
    /\ nDeleted = 0
    /\ fresh = {}
    /\ cleared = FALSE
    /\ gone = {}
    /\ nAccepted = 0
    /\ nResp = 0
    /\ failedIn = "none"
    /\ outbox = {}
    /\ deferred = FALSE

Init == InitProcess /\ budget = LifecycleRequests /\ NoNetwork

\* db.sequelize.authenticate() resolves: first .then, sync is started
AuthenticateOkSkipsSync ==
    /\ exitCode = Running
    /\ conn = "authenticating"
    /\ conn' = "idle"
    /\ dbConnected' = TRUE
    /\ UNCHANGED <<retries, retryTimer, routeTimer, routesRegistered,
                   closing, exitCode, inflight, budget, table, seq, clock,
                   lastResp, delays, failures, nCreated, nDeleted, fresh, cleared, gone,
                   nAccepted, nResp, failedIn, outbox, deferred, netVars>>
AuthenticateOk ==
    /\ exitCode = Running
    /\ conn = "authenticating"
    /\ conn' = "syncing"
    /\ UNCHANGED <<retries, dbConnected, retryTimer, routeTimer, routesRegistered,
                   closing, exitCode, inflight, budget, table, seq, clock,
                   lastResp, delays, failures, nCreated, nDeleted, fresh, cleared, gone,
                   nAccepted, nResp, failedIn, outbox, deferred, netVars>>

\* db.sequelize.sync({force: false}) resolves: second .then
SyncOkFlagNotSet ==
    /\ exitCode = Running
    /\ conn = "syncing"
    /\ conn' = "idle"
    /\ UNCHANGED <<retries, dbConnected, retryTimer, routeTimer, routesRegistered,
                   closing, exitCode, inflight, budget, table, seq, clock,
                   lastResp, delays, failures, nCreated, nDeleted, fresh, cleared, gone,
                   nAccepted, nResp, failedIn, outbox, deferred, netVars>>

SyncOk ==
    /\ exitCode = Running
    /\ conn = "syncing"
    /\ conn' = "idle"
    /\ dbConnected' = TRUE
    /\ UNCHANGED <<retries, retryTimer, routeTimer, routesRegistered,
                   closing, exitCode, inflight, budget, table, seq, clock,
                   lastResp, delays, failures, nCreated, nDeleted, fresh, cleared, gone,
                   nAccepted, nResp, failedIn, outbox, deferred, netVars>>

\* authenticate() or sync() rejects: the .catch of connectDB
CatchRetriesPastLimit ==
    /\ exitCode = Running
    /\ conn \in {"authenticating", "syncing"}
    /\ conn' = "idle"
    /\ failures' = failures + 1
    /\ failedIn' = conn
    /\ IF retries <= maxRetries
         THEN /\ retryTimer' = Delay(retries)
              /\ delays' = Append(delays, Delay(retries))
              /\ UNCHANGED exitCode
         ELSE /\ exitCode' = 1
              /\ UNCHANGED <<retryTimer, delays>>
    /\ UNCHANGED <<retries, dbConnected, routeTimer, routesRegistered, closing,
                   inflight, budget, table, seq, clock, lastResp,
                   nCreated, nDeleted, fresh, cleared, gone,
                   nAccepted, nResp, outbox, deferred, netVars>>

CatchExitAlways ==
    /\ exitCode = Running
    /\ conn \in {"authenticating", "syncing"}
    /\ conn' = "idle"
    /\ failures' = failures + 1
    /\ failedIn' = conn
    /\ exitCode' = 1
    /\ UNCHANGED <<retryTimer, delays>>
    /\ UNCHANGED <<retries, dbConnected, routeTimer, routesRegistered, closing,
                   inflight, budget, table, seq, clock, lastResp,
                   nCreated, nDeleted, fresh, cleared, gone,
                   nAccepted, nResp, outbox, deferred, netVars>>

Catch ==
    /\ exitCode = Running
    /\ conn \in {"authenticating", "syncing"}
    /\ conn' = "idle"
    /\ failures' = failures + 1
    /\ failedIn' = conn
    /\ IF retries < maxRetries
         THEN /\ retryTimer' = Delay(retries)
              /\ delays' = Append(delays, Delay(retries))
              /\ UNCHANGED exitCode
         ELSE /\ exitCode' = 1
              /\ UNCHANGED <<retryTimer, delays>>
    /\ UNCHANGED <<retries, dbConnected, routeTimer, routesRegistered, closing,
                   inflight, budget, table, seq, clock, lastResp,
                   nCreated, nDeleted, fresh, cleared, gone,
                   nAccepted, nResp, outbox, deferred, netVars>>

\* the retry timer fires: connectDB() runs again
connectDBResumesSync ==
    /\ exitCode = Running
    /\ retryTimer = 0
    /\ retryTimer' = NoTimer
    /\ retries' = retries + 1
    /\ conn' = (IF failedIn = "syncing" THEN "syncing" ELSE "authenticating")
    /\ failedIn' = "none"
    /\ UNCHANGED <<dbConnected, routeTimer, routesRegistered, closing, exitCode,
                   inflight, budget, table, seq, clock, lastResp, delays,
                   failures, nCreated, nDeleted, fresh, cleared, gone,
                   nAccepted, nResp, outbox, deferred, netVars>>
connectDB ==
    /\ exitCode = Running
    /\ retryTimer = 0
    /\ retryTimer' = NoTimer
    /\ retries' = retries + 1
    /\ conn' = "authenticating"
    /\ failedIn' = "none"
    /\ UNCHANGED <<dbConnected, routeTimer, routesRegistered, closing, exitCode,
                   inflight, budget, table, seq, clock, lastResp, delays,
                   failures, nCreated, nDeleted, fresh, cleared, gone,
                   nAccepted, nResp, outbox, deferred, netVars>>

\* the 1000 ms timer fires: require('./app/routes/customer.routes')(app)
RegisterRoutes ==
    /\ exitCode = Running
    /\ routeTimer = 0
    /\ routeTimer' = NoTimer
    /\ routesRegistered' = TRUE
    /\ UNCHANGED <<seqVars, closing, exitCode, inflight, budget, dbVars,
                   lastResp, histVars,
                   nAccepted, nResp, outbox, deferred, netVars>>

\* time passes until the earliest pending timer is due
PendingTimers == {t \in {retryTimer, routeTimer} : t # NoTimer}

AdvanceTime ==
    /\ exitCode = Running
    /\ PendingTimers # {}
    /\ \A t \in PendingTimers : t > 0
    /\ ~(closing /\ inflight = {})    \* the close callback is due at once
    /\ LET d == CHOOSE t \in PendingTimers : \A u \in PendingTimers : t <= u
       IN /\ retryTimer' = IF retryTimer = NoTimer THEN NoTimer ELSE retryTimer - d
          /\ routeTimer' = IF routeTimer = NoTimer THEN NoTimer ELSE routeTimer - d
    /\ UNCHANGED <<retries, dbConnected, conn, routesRegistered, closing, exitCode,
                   inflight, budget, table, seq, clock, lastResp, delays,
                   failures, nCreated, nDeleted, fresh, cleared, gone,
                   nAccepted, nResp, failedIn, outbox, deferred, netVars>>

----------------------------------------------------------------------------
(* Shutdown *)

\* process.on('SIGTERM'): server.close(callback)
Sigterm ==
    /\ exitCode = Running
    /\ closing' = TRUE
    /\ UNCHANGED <<seqVars, routeTimer, routesRegistered, exitCode, inflight,
                   budget, dbVars, lastResp, histVars,
                   nAccepted, nResp, outbox, deferred, netVars>>

\* the callback of server.close: every connection has ended, process.exit(0)
ServerClosed ==
    /\ exitCode = Running
    /\ closing
    /\ inflight = {}
    /\ exitCode' = 0
    /\ UNCHANGED <<seqVars, routeTimer, routesRegistered, closing, inflight,
                   budget, dbVars, lastResp, histVars,
                   nAccepted, nResp, outbox, deferred, netVars>>

----------------------------------------------------------------------------
(* The customers table and the data-access layer *)

NoErr == "<none>"
\* messages of the errors the data-access layer may throw; an Error may have
\* an empty message
DbErrors == {"connect ECONNREFUSED", ""}

Body(kind, msg, recs, n) == [kind |-> kind, msg |-> msg, recs |-> recs, n |-> n]

\* the record a handler sends for a row of the table
Rec(t) == [id |-> t.id, firstname |-> t.firstname, lastname |-> t.lastname,
           age |-> t.age, address |-> t.address,
           createdAt |-> t.createdAt, updatedAt |-> t.updatedAt]

RECURSIVE Orderings(_)
Orderings(S) ==
    IF S = {} THEN {<<>>}
    ELSE UNION {{<<x>> \o s : s \in Orderings(S \ {x})} : x \in S}

\* bodies a client may send; a field that is absent reads as undefined
Bodies ==
    [id : {UndefInt} \cup Ids,
     firstname : {UndefStr, NullStr, ""} \cup FirstNames,
     lastname : {UndefStr, NullStr, ""} \cup LastNames,
     age : {UndefInt} \cup Ages,
     address : {UndefStr} \cup Addresses]

\* the body {} : every field reads as undefined
EmptyBody == [id |-> UndefInt, firstname |-> UndefStr, lastname |-> UndefStr,
              age |-> UndefInt, address |-> UndefStr]

\* if (!firstname || !lastname) of exports.create
CreateRejectsFirstnameOnly(b) == Falsy(b.firstname)
CreateRejects(b) == Falsy(b.firstname) \/ Falsy(b.lastname)

\* the row INSERT ... RETURNING builds for Customer.create({firstname, lastname,
\* age, address}): id from the sequence, absent optional fields stored as null
NewRow(b, id, now) ==
    [row |-> id, id |-> id, firstname |-> b.firstname, lastname |-> b.lastname,
     age |-> IF b.age = UndefInt THEN NullInt ELSE b.age,
     address |-> IF b.address = UndefStr THEN NullStr ELSE b.address,
     createdAt |-> now, updatedAt |-> now]

\* the instance Customer.create resolves to, sent by res.status(201).send:
\* with postgres its values are those INSERT ... RETURNING gave back
CreatedInstanceFromInput(t, b) == [Rec(t) EXCEPT !.age = b.age, !.address = b.address]
CreatedInstance(t, b) == Rec(t)

\* validation of Customer.update(req.body, ...): allowNull: false rejects null
\* for firstname and lastname; an empty string passes
UpdateInvalid(b) == b.firstname = NullStr \/ b.lastname = NullStr

\* UPDATE customers SET <fields of the body>, updatedAt = now WHERE id = ...
UpdatedRow(t, b, now) ==
    [row |-> t.row,
     id |-> IF b.id = UndefInt THEN t.id ELSE b.id,
     firstname |-> IF b.firstname = UndefStr THEN t.firstname ELSE b.firstname,
     lastname |-> IF b.lastname = UndefStr THEN t.lastname ELSE b.lastname,
     age |-> IF b.age = UndefInt THEN t.age ELSE b.age,
     address |-> IF b.address = UndefStr THEN t.address ELSE b.address,
     createdAt |-> t.createdAt,
     updatedAt |-> now]

\* rows selected by where: { id: id }
Matching(id) == {t \in table : t.id = id}

----------------------------------------------------------------------------
(* Requests *)

\* requests the run lets be in flight at the same time
InflightLimit == IF deferred THEN ConcInflight ELSE MaxInflight

\* requests in flight whose handler has not run yet
Unserved == {r \in inflight : \A o \in outbox : o.rq # r.rq}

\* a connection is accepted
Accept(op) ==
    /\ exitCode = Running
    /\ ~closing
    /\ budget > 0
    /\ Cardinality(inflight) < InflightLimit
    /\ inflight' = inflight \cup {[rq |-> budget, op |-> op]}
    /\ budget' = budget - 1
    /\ nAccepted' = nAccepted + 1
    /\ UNCHANGED <<seqVars, routeTimer, routesRegistered, closing, exitCode,
                   dbVars, lastResp, histVars, nResp, outbox, deferred, netVars>>

\* the response to request r, whose path id was id (0 when the path has none)
\* In a deferred run the response is built when the awaited call settles and
\* is sent in a later step (Send).
RespondKeepsPending(r, id, status, body) ==
    /\ lastResp' = [rq |-> r.rq, op |-> r.op, id |-> id,
                    status |-> status, body |-> body]
    /\ inflight' = inflight
    /\ nResp' = nResp + 1
    /\ UNCHANGED <<seqVars, routeTimer, routesRegistered, closing, exitCode, budget,
                   nAccepted, outbox, deferred, netVars>>
Respond(r, id, status, body) ==
    /\ LET resp == [rq |-> r.rq, op |-> r.op, id |-> id,
                    status |-> status, body |-> body]
       IN IF deferred
            THEN /\ outbox' = outbox \cup {resp}
                 /\ UNCHANGED <<lastResp, inflight, nResp>>
            ELSE /\ lastResp' = resp
                 /\ inflight' = inflight \ {r}
                 /\ nResp' = nResp + 1
                 /\ UNCHANGED outbox
    /\ UNCHANGED <<seqVars, routeTimer, routesRegistered, closing, exitCode, budget,
                   nAccepted, deferred, netVars>>

\* the continuation after the await sends the response it built
SendRereads ==
    \E o \in outbox :
        /\ exitCode = Running
        /\ lastResp' = (IF o.op = "findAll" /\ o.status = 200
                          THEN [o EXCEPT !.body.recs =
                                   CHOOSE q \in Orderings({Rec(t) : t \in table}) : TRUE]
                          ELSE o)
        /\ inflight' = {r \in inflight : r.rq # o.rq}
        /\ nResp' = nResp + 1
        /\ outbox' = outbox \ {o}
        /\ UNCHANGED <<seqVars, routeTimer, routesRegistered, closing, exitCode, budget,
                       nAccepted, deferred, netVars, dbVars, histVars>>
Send ==
    \E o \in outbox :
        /\ exitCode = Running
        /\ lastResp' = o
        /\ inflight' = {r \in inflight : r.rq # o.rq}
        /\ nResp' = nResp + 1
        /\ outbox' = outbox \ {o}
        /\ UNCHANGED <<seqVars, routeTimer, routesRegistered, closing, exitCode, budget,
                       nAccepted, deferred, netVars, dbVars, histVars>>

\* app.get('/')
HealthChecksDb ==
    \E r \in Unserved :
        /\ exitCode = Running
        /\ r.op = "health"
        /\ Respond(r, 0, IF dbConnected THEN 200 ELSE 503,
                   Body("health", "Customer Management API", <<>>, 0))
        /\ UNCHANGED <<dbVars, histVars>>
Health ==
    \E r \in Unserved :
        /\ exitCode = Running
        /\ r.op = "health"
        /\ Respond(r, 0, 200, Body("health", "Customer Management API", <<>>, 0))
        /\ UNCHANGED <<dbVars, histVars>>

\* a customer request while the customer routes are not in the stack
NotFound ==
    \E r \in Unserved :
        /\ exitCode = Running
        /\ r.op \in CustomerOps \cup {"badparam"}
        /\ ~routesRegistered
        /\ Respond(r, 0, 404, NoBody)
        /\ UNCHANGED <<dbVars, histVars>>

\* the middleware stack in the order of the app.use / app.get calls; the
\* customer router is appended when the route timer fires
Stack ==
    <<"cors", "json", "health", "errorHandler">>
        \o (IF routesRegistered THEN <<"customerRoutes">> ELSE <<>>)

\* the layer in which a faulty request raises its error
RaisedAt(op) == IF op = "badjson" THEN "json" ELSE "customerRoutes"

\* Express hands an error to the first error-handling middleware that comes
\* later in the stack than the layer that raised it
ErrorHandlerAfter(layer) ==
    \E i \in 1..Len(Stack), j \in 1..Len(Stack) :
        i < j /\ Stack[i] = layer /\ Stack[j] = "errorHandler"

\* app.use((err, req, res, next) => res.status(500).json(...))
FallbackBody == Body("message", "Internal Server Error", <<>>, 0)
\* with no error handler left, Express's final handler answers with the
\* status of the error (400 for a parse or decode error) and an HTML page
FinalHandlerBody == Body("html", "Bad Request", <<>>, 0)

\* an error raised by a layer and not caught in it
ErrorEscapes ==
    \E r \in Unserved :
        /\ exitCode = Running
        /\ r.op \in FaultOps
        /\ \E i \in 1..Len(Stack) : Stack[i] = RaisedAt(r.op)
        /\ IF ErrorHandlerAfter(RaisedAt(r.op))
             THEN Respond(r, 0, 500, FallbackBody)
             ELSE Respond(r, 0, 400, FinalHandlerBody)
        /\ UNCHANGED <<dbVars, histVars>>

\* error.message || fallback of the catch blocks of create, findAll, deleteAll
MessageOr(err, fallback) == IF err = "" THEN fallback ELSE err

\* the body the catch block of a handler sends for an error with message err
CatchBody(op, id, err) ==
    CASE op = "create"    -> Body("message", MessageOr(err, "Error creating customer"), <<>>, 0)
      [] op = "findAll"   -> Body("message", MessageOr(err, "Error retrieving customers"), <<>>, 0)
      [] op = "findOne"   -> Body("message", "Error retrieving customer with id=", <<>>, id)
      [] op = "update"    -> Body("message", "Error updating customer with id=", <<>>, id)
      [] op = "delete"    -> Body("message", "Error deleting customer with id=", <<>>, id)
      [] op = "deleteAll" -> Body("message", MessageOr(err, "Error deleting all customers"), <<>>, 0)

\* exports.create
CreateBodies == {x \in Bodies : x.id = UndefInt}
Errs == DbErrors \cup {NoErr}
CreateWith(r, b, err) ==
        /\ exitCode = Running
        /\ routesRegistered
        /\ r.op = "create"
        /\ IF CreateRejects(b)
             THEN /\ err = NoErr
                  /\ Respond(r, 0, 400, Body("message", "Firstname and Lastname are required!", <<>>, 0))
                  /\ UNCHANGED <<dbVars, histVars>>
           ELSE IF err # NoErr
             THEN /\ Respond(r, 0, 500, CatchBody("create", 0, err))
                  /\ UNCHANGED <<dbVars, histVars>>
           ELSE /\ seq <= MaxSeq
                /\ seq' = seq + 1
                /\ IF Matching(seq) # {}
                     THEN \* the primary key rejects the duplicate id
                          /\ Respond(r, 0, 500, CatchBody("create", 0, "Validation error"))
                          /\ UNCHANGED <<table, clock, histVars>>
                     ELSE LET t == NewRow(b, seq, clock + 1)
                          IN /\ table' = table \cup {t}
                             /\ clock' = clock + 1
                             /\ Respond(r, 0, 201, Body("record", "", <<CreatedInstance(t, b)>>, 0))
                             /\ nCreated' = nCreated + 1
                             /\ fresh' = fresh \cup {CreatedInstance(t, b)}
                             /\ cleared' = FALSE
                             /\ UNCHANGED <<nDeleted, gone>>

\* exports.findAll: Customer.findAll() selects every row
ListedRowsLimitOne == IF table = {} THEN {} ELSE {CHOOSE t \in table : TRUE}
ListedRows == table
FindAllWith(r, err) ==
        /\ exitCode = Running
        /\ routesRegistered
        /\ r.op = "findAll"
        /\ IF err # NoErr
             THEN Respond(r, 0, 500, CatchBody("findAll", 0, err))
             ELSE \E recs \in Orderings({Rec(t) : t \in ListedRows}) :
                      Respond(r, 0, 200, Body("array", "", recs, 0))
        /\ UNCHANGED <<dbVars, histVars>>

\* exports.findOne: Customer.findByPk(id)
FindByPkAnyRow(id) == table
FindByPk(id) == Matching(id)
FindOneWith(r, id, err) ==
        /\ exitCode = Running
        /\ routesRegistered
        /\ r.op = "findOne"
        /\ IF err # NoErr
             THEN Respond(r, id, 500, CatchBody("findOne", id, err))
           ELSE IF FindByPk(id) = {}
             THEN Respond(r, id, 404, Body("message", "Customer not found with id=", <<>>, id))
           ELSE \E t \in FindByPk(id) :
                    Respond(r, id, 200, Body("record", "", <<Rec(t)>>, 0))
        /\ UNCHANGED <<dbVars, histVars>>

\* exports.update
UpdateWith(r, id, b, err) ==
        /\ exitCode = Running
        /\ routesRegistered
        /\ r.op = "update"
        /\ IF err # NoErr \/ UpdateInvalid(b)
             THEN /\ Respond(r, id, 500, CatchBody("update", id, err))
                  /\ UNCHANGED <<dbVars, histVars>>
           ELSE IF Matching(id) = {}
             THEN /\ Respond(r, id, 404, Body("message", "Cannot update customer with id=", <<>>, id))
                  /\ UNCHANGED <<dbVars, histVars>>
           ELSE \E t \in Matching(id) :
                  LET u == UpdatedRow(t, b, clock + 1)
                  IN IF \E o \in table \ {t} : o.id = u.id
                       THEN \* the primary key rejects the duplicate id
                            /\ Respond(r, id, 500, CatchBody("update", id, err))
                            /\ UNCHANGED <<dbVars, histVars>>
                       ELSE /\ table' = (table \ {t}) \cup {u}
                            /\ clock' = clock + 1
                            /\ Respond(r, id, 200, Body("message", "Customer updated successfully", <<>>, 0))
                            /\ fresh' = {f \in fresh : f.id # id}
                            /\ UNCHANGED <<seq, nCreated, nDeleted, cleared, gone>>

\* exports.delete
DeleteWith(r, id, err) ==
        /\ exitCode = Running
        /\ routesRegistered
        /\ r.op = "delete"
        /\ IF err # NoErr
             THEN /\ Respond(r, id, 500, CatchBody("delete", id, err))
                  /\ UNCHANGED <<dbVars, histVars>>
           ELSE IF Matching(id) = {}
             THEN /\ Respond(r, id, 404, Body("message", "Cannot delete customer with id=", <<>>, id))
                  /\ UNCHANGED <<dbVars, histVars>>
           ELSE /\ table' = table \ Matching(id)
                /\ Respond(r, id, 200, Body("message", "Customer deleted successfully", <<>>, 0))
                /\ nDeleted' = nDeleted + 1
                /\ fresh' = {f \in fresh : f.id # id}
                /\ gone' = gone \cup {id}
                /\ UNCHANGED <<seq, clock, nCreated, cleared>>

\* exports.deleteAll: Customer.destroy({ where: {}, truncate: false }) deletes
\* every row and resolves to their number; the response is sent with the
\* default status whatever that number is
DestroyedByEmptyWhereButOne == IF table = {} THEN {} ELSE table \ {CHOOSE t \in table : TRUE}
DestroyedByEmptyWhere == table
DeleteAllStatus404OnNone(deleted) == IF deleted = 0 THEN 404 ELSE 200
DeleteAllStatus(deleted) == 200
DeleteAllWith(r, err) ==
        /\ exitCode = Running
        /\ routesRegistered
        /\ r.op = "deleteAll"
        /\ IF err # NoErr
             THEN /\ Respond(r, 0, 500, CatchBody("deleteAll", 0, err))
                  /\ UNCHANGED <<dbVars, histVars>>
             ELSE LET deleted == Cardinality(DestroyedByEmptyWhere)
                  IN /\ table' = table \ DestroyedByEmptyWhere
                     /\ Respond(r, 0, DeleteAllStatus(deleted),
                                Body("message", "customers deleted successfully", <<>>, deleted))
                     /\ nDeleted' = nDeleted + deleted
                     /\ fresh' = {}
                     /\ cleared' = TRUE
                     /\ UNCHANGED <<seq, clock, nCreated, gone>>

Create == \E r \in Unserved, b \in CreateBodies, err \in Errs : CreateWith(r, b, err)
FindAll == \E r \in Unserved, err \in Errs : FindAllWith(r, err)
FindOne == \E r \in Unserved, id \in Ids, err \in Errs : FindOneWith(r, id, err)
\* a failed data-access call is answered the same whatever the body was, so
\* the empty body stands for every body of a failing update; likewise one
\* body stands for all that validation rejects, and the empty body for all
\* valid bodies of an update that matches no row
NullNameBody == [EmptyBody EXCEPT !.firstname = NullStr]
Update ==
    \E r \in Unserved, id \in Ids, b \in Bodies, err \in Errs :
        /\ err # NoErr => b = EmptyBody
        /\ UpdateInvalid(b) => b = NullNameBody
        /\ (~UpdateInvalid(b) /\ Matching(id) = {}) => b = EmptyBody
        /\ UpdateWith(r, id, b, err)
Delete == \E r \in Unserved, id \in Ids, err \in Errs : DeleteWith(r, id, err)
DeleteAll == \E r \in Unserved, err \in Errs : DeleteAllWith(r, err)

----------------------------------------------------------------------------
(* Specifications *)

Next ==
    \/ AuthenticateOk
    \/ SyncOk
    \/ Catch
    \/ connectDB
    \/ RegisterRoutes
    \/ AdvanceTime
    \/ Sigterm
    \/ ServerClosed
    \/ \E op \in Ops : Accept(op)
    \/ Health
    \/ NotFound
    \/ ErrorEscapes
    \/ Create
    \/ FindAll
    \/ FindOne
    \/ Update
    \/ Delete
    \/ DeleteAll

Spec == Init /\ [][Next]_vars

\* every authenticate and sync call settles, every timer that is due fires, time
\* passes, and the close callback runs once the server has closed; nothing is
\* assumed of the clients or of the arrival of SIGTERM
Fairness ==
    /\ WF_vars(AuthenticateOk \/ SyncOk \/ Catch)
    /\ WF_vars(connectDB)
    /\ WF_vars(RegisterRoutes)
    /\ WF_vars(AdvanceTime)
    /\ WF_vars(ServerClosed)

SpecLive == Init /\ [][Next]_vars /\ Fairness

\* a started server: the first connection attempt succeeded and the route
\* timer has fired; the table is empty
InitReady ==
    /\ retries = 1
    /\ dbConnected = TRUE
    /\ conn = "idle"
    /\ retryTimer = NoTimer
    /\ routeTimer = NoTimer
    /\ routesRegistered = TRUE
    /\ closing = FALSE
    /\ exitCode = Running
    /\ inflight = {}
    /\ budget = CrudRequests
    /\ table = {}
    /\ seq = 1
    /\ clock = 0
    /\ lastResp = NoResp
    /\ delays = <<>>
    /\ failures = 0
    /\ nCreated = 0
    /\ nDeleted = 0
    /\ fresh = {}
    /\ cleared = FALSE
    /\ gone = {}
    /\ nAccepted = 0
    /\ nResp = 0
    /\ failedIn = "none"
    /\ outbox = {}
    /\ deferred = FALSE
    /\ NoNetwork

NextCrud ==
    \/ \E op \in CustomerOps : Accept(op)
    \/ Create
    \/ FindAll
    \/ FindOne
    \/ Update
    \/ Delete
    \/ DeleteAll

SpecCrud == InitReady /\ [][NextCrud]_vars

\* the same started server with clients that send LongRequests requests
InitReadyLong ==
    /\ retries = 1
    /\ dbConnected = TRUE
    /\ conn = "idle"
    /\ retryTimer = NoTimer
    /\ routeTimer = NoTimer
    /\ routesRegistered = TRUE
    /\ closing = FALSE
    /\ exitCode = Running
    /\ inflight = {}
    /\ budget = LongRequests
    /\ table = {}
    /\ seq = 1
    /\ clock = 0
    /\ lastResp = NoResp
    /\ delays = <<>>
    /\ failures = 0
    /\ nCreated = 0
    /\ nDeleted = 0
    /\ fresh = {}
    /\ cleared = FALSE
    /\ gone = {}
    /\ nAccepted = 0
    /\ nResp = 0
    /\ failedIn = "none"
    /\ outbox = {}
    /\ deferred = FALSE
    /\ NoNetwork

SpecCrudLong == InitReadyLong /\ [][NextCrud]_vars

\* the same started server, with requests in flight together and the sending
\* of each response a step of its own after the data-access call has settled
InitConc ==
    /\ retries = 1
    /\ dbConnected = TRUE
    /\ conn = "idle"
    /\ retryTimer = NoTimer
    /\ routeTimer = NoTimer
    /\ routesRegistered = TRUE
    /\ closing = FALSE
    /\ exitCode = Running
    /\ inflight = {}
    /\ budget = ConcRequests
    /\ table = {}
    /\ seq = 1
    /\ clock = 0
    /\ lastResp = NoResp
    /\ delays = <<>>
    /\ failures = 0
    /\ nCreated = 0
    /\ nDeleted = 0
    /\ fresh = {}
    /\ cleared = FALSE
    /\ gone = {}
    /\ nAccepted = 0
    /\ nResp = 0
    /\ failedIn = "none"
    /\ outbox = {}
    /\ deferred = TRUE
    /\ NoNetwork

NextConc ==
    \/ \E op \in CustomerOps : Accept(op)
    \/ Create
    \/ FindAll
    \/ FindOne
    \/ Update
    \/ Delete
    \/ DeleteAll
    \/ Send

SpecConc == InitConc /\ [][NextConc]_vars

----------------------------------------------------------------------------
(* Network module: subnet addressing (modules/network/main.tf) *)

serverVars == <<retries, dbConnected, conn, retryTimer, routeTimer, routesRegistered,
                closing, exitCode, inflight, budget, table, seq, clock, lastResp,
                delays, failures, nCreated, nDeleted, fresh, cleared, gone,
                nAccepted, nResp, failedIn, outbox, deferred>>

\* values given to var.vpc_cidr
VpcCidrs == {DefaultVpcCidr, <<100, 64, 0, 0, 12>>, <<10, 20, 30, 0, 24>>}

\* a list of n availability zones; only their number and position matter
Zones(n) == [i \in 1..n |-> i]

RECURSIVE Pow2(_)
Pow2(n) == IF n = 0 THEN 1 ELSE 2 * Pow2(n - 1)

\* the address of a block as a 32-bit number
AddrOf(c) == ((c[1] * 256 + c[2]) * 256 + c[3]) * 256 + c[4]

\* the block that starts at a 32-bit address, in dotted form
Block(addr, len) ==
    <<addr \div 16777216, (addr \div 65536) % 256, (addr \div 256) % 256, addr % 256, len>>

\* the call fails: the plan is rejected
CidrError == <<>>

\* cidrsubnet(prefix, newbits, netnum): the prefix is extended by newbits
\* bits and netnum is written into the new bits
cidrsubnet(prefix, newbits, netnum) ==
    LET len     == prefix[5]
        newlen  == len + newbits
        network == AddrOf(prefix) - (AddrOf(prefix) % Pow2(32 - len))
    IN IF newlen > 32 \/ netnum >= Pow2(newbits)
         THEN CidrError
         ELSE Block(network + netnum * Pow2(32 - newlen), newlen)

\* validation of var.availability_zones
Accepted == Len(availability_zones) >= 2

\* cidr_block of the instance count.index = i of each subnet resource
PublicCidr(i)   == cidrsubnet(vpc_cidr, 8, i)
PrivateCidr(i)  == cidrsubnet(vpc_cidr, 8, i + 10)
DatabaseCidr(i) == cidrsubnet(vpc_cidr, 8, i + 20)

\* the plan is made only when the variables are valid and every expression
\* of the count.index instances evaluates
PlanOk ==
    /\ Accepted
    /\ \A i \in 0..(Len(availability_zones) - 1) :
           /\ PublicCidr(i) # CidrError
           /\ PrivateCidr(i) # CidrError
           /\ DatabaseCidr(i) # CidrError

Subnet(cidr, i) == [cidr_block |-> cidr, availability_zone |-> availability_zones[i + 1]]

\* the instances of one resource are recorded in the order of count.index;
\* the three resources do not depend on each other and proceed independently
CreatePublic ==
    /\ PlanOk
    /\ Len(public) < Len(availability_zones)
    /\ public' = Append(public, Subnet(PublicCidr(Len(public)), Len(public)))
    /\ UNCHANGED <<serverVars, availability_zones, vpc_cidr, private, database>>

CreatePrivate ==
    /\ PlanOk
    /\ Len(private) < Len(availability_zones)
    /\ private' = Append(private, Subnet(PrivateCidr(Len(private)), Len(private)))
    /\ UNCHANGED <<serverVars, availability_zones, vpc_cidr, public, database>>

CreateDatabase ==
    /\ PlanOk
    /\ Len(database) < Len(availability_zones)
    /\ database' = Append(database, Subnet(DatabaseCidr(Len(database)), Len(database)))
    /\ UNCHANGED <<serverVars, availability_zones, vpc_cidr, public, private>>

\* the module is given its variables and nothing is created yet
InitNet ==
    /\ InitProcess
    /\ budget = 0
    /\ vpc_cidr \in VpcCidrs
    /\ availability_zones \in {Zones(n) : n \in 0..MaxZones}
    /\ public = <<>>
    /\ private = <<>>
    /\ database = <<>>

NextNet ==
    \/ CreatePublic
    \/ CreatePrivate
    \/ CreateDatabase

SpecNet == InitNet /\ [][NextNet]_vars

----------------------------------------------------------------------------
(* Properties of the customer handlers, checked under SpecCrud *)

\* this step sends the response to a request of kind op
Answered(op) == inflight' # inflight /\ lastResp'.op = op /\ lastResp'.rq \notin {r.rq : r \in inflight'}
               /\ lastResp'.rq \in {r.rq : r \in inflight}

\* a body field that is missing or empty
MissingOrEmpty(v) == v = UndefStr \/ v = ""

\* C1: a create request whose firstname or lastname is missing or empty is
\* answered 400 and leaves the customers table exactly as it was: a step that
\* answers a create otherwise is not the step of any such request.
C1_InvalidCreateRejected ==
    [][Answered("create")
          => \/ lastResp'.status = 400 /\ table' = table
             \/ \A r \in inflight \ inflight', b \in CreateBodies, err \in Errs :
                    (MissingOrEmpty(b.firstname) \/ MissingOrEmpty(b.lastname))
                        => ~CreateWith(r, b, err)]_vars

C1_Witness ==
    /\ lastResp.op = "create"
    /\ lastResp.status = 400
    /\ table # {}

\* C2: every stored record has a non-empty firstname and a non-empty lastname.
C2_NamesNonEmpty ==
    \A t \in table : t.firstname # "" /\ t.lastname # ""

\* C3: no request changes the id of a stored record, and no two stored
\* records share an id.
C3_IdImmutableUnique ==
    [][/\ \A t \in table, u \in table' : t.row = u.row => t.id = u.id
       /\ \A t \in table', u \in table' : t.id = u.id => t = u]_vars

\* C9: a create with non-empty firstname and lastname is answered 201 with the
\* created record unless the data-access layer fails, and a later get-by-id of a
\* record returned by create and not updated or deleted since is answered 200
\* with a record equal to it field for field.
C9_CreateThenGet ==
    /\ [][Answered("create")
             => \A r \in inflight \ inflight', b \in CreateBodies :
                    (b.firstname \in FirstNames /\ b.lastname \in LastNames)
                        => \A err \in Errs :
                               CreateWith(r, b, err)
                                   => /\ lastResp'.status \in {201, 500}
                                      /\ (err = NoErr /\ \A t \in table : t.id # seq)
                                            => /\ lastResp'.status = 201
                                               /\ lastResp'.body.recs[1].firstname = b.firstname
                                               /\ lastResp'.body.recs[1].lastname = b.lastname
                                               /\ lastResp'.body.recs[1].id \notin {t.id : t \in table}]_vars
    /\ [](lastResp.op = "findOne" /\ lastResp.status # 500
             => \A f \in fresh :
                    f.id = lastResp.id
                        => lastResp.status = 200 /\ lastResp.body.recs = <<f>>)

C9_Witness ==
    /\ lastResp.op = "findOne"
    /\ lastResp.status = 200
    /\ \E f \in fresh : lastResp.body.recs = <<f>> /\ f.age = NullInt

\* C10: a list is answered with exactly the records created and not deleted
\* since, each once: as many records as 201 responses minus rows reported
\* deleted, without repetition, and they are the rows of the table.
C10_ListReturnsAll ==
    (lastResp.op = "findAll" /\ lastResp.status = 200)
        => LET recs == lastResp.body.recs
           IN /\ Len(recs) = nCreated - nDeleted
              /\ \A i \in 1..Len(recs), j \in 1..Len(recs) : recs[i] = recs[j] => i = j
              /\ {recs[i] : i \in 1..Len(recs)} = {Rec(t) : t \in table}

C10_Witness ==
    /\ lastResp.op = "findAll"
    /\ lastResp.status = 200
    /\ Len(lastResp.body.recs) = 2
    /\ nDeleted = 0

\* C11: an update request for an id that matches no stored record is answered
\* 404 and leaves every record of the table unchanged, whatever fields its body
\* contains (the data-access call itself not failing).
C11_UpdateMissingIs404 ==
    [][Answered("update")
          => \A r \in inflight \ inflight', id \in Ids, b \in Bodies :
                 (Matching(id) = {} /\ UpdateWith(r, id, b, NoErr))
                     => (lastResp'.status = 404 /\ table' = table)]_vars

\* the fields of body b replaced on row t, every other field of t kept
\* (updatedAt, which the data-access layer maintains itself, is left open)
FieldsReplaced(t, u, b) ==
    /\ u.row = t.row
    /\ u.id = (IF b.id = UndefInt THEN t.id ELSE b.id)
    /\ u.firstname = (IF b.firstname = UndefStr THEN t.firstname ELSE b.firstname)
    /\ u.lastname = (IF b.lastname = UndefStr THEN t.lastname ELSE b.lastname)
    /\ u.age = (IF b.age = UndefInt THEN t.age ELSE b.age)
    /\ u.address = (IF b.address = UndefStr THEN t.address ELSE b.address)
    /\ u.createdAt = t.createdAt

\* C12: an update request for an existing id is answered 200 with the
\* confirmation message, replaces exactly the fields present in the body on
\* that record, and leaves the record's other fields and every other record
\* unchanged (the data-access call itself not failing).
C12_UpdateExistingReplaces ==
    [][Answered("update")
          => \A r \in inflight \ inflight', id \in Ids, b \in Bodies :
                 (Matching(id) # {} /\ UpdateWith(r, id, b, NoErr))
                     => /\ lastResp'.status = 200
                        /\ lastResp'.body.msg = "Customer updated successfully"
                        /\ \E t \in Matching(id), u \in table' :
                               /\ FieldsReplaced(t, u, b)
                               /\ table' \ {u} = table \ {t}]_vars

\* C13: after a successful delete-all, whatever the table held, a list request
\* with no create in between that the data-access layer serves is answered 200
\* with an empty collection.
C13_ListAfterDeleteAllEmpty ==
    (lastResp.op = "findAll" /\ cleared /\ lastResp.status # 500)
        => /\ lastResp.status = 200
           /\ lastResp.body.kind = "array"
           /\ lastResp.body.recs = <<>>

C13_Witness ==
    /\ lastResp.op = "findAll"
    /\ lastResp.status = 200
    /\ cleared
    /\ nDeleted > 0

\* C14: a delete-all that the data-access layer serves is answered 200 with a
\* message whose count is the number of records stored immediately before it,
\* 0 for an empty table included, and never 404; afterwards the table is empty.
C14_DeleteAllCount ==
    [][(Answered("deleteAll") /\ lastResp'.status # 500)
          => /\ lastResp'.status = 200
             /\ lastResp'.body.kind = "message"
             /\ lastResp'.body.n = Cardinality(table)
             /\ table' = {}]_vars

C14_Witness ==
    /\ lastResp.op = "deleteAll"
    /\ lastResp.status = 200
    /\ lastResp.body.n = 0
    /\ nDeleted > 0

\* C15: a delete-one for an existing id that the data-access layer serves is
\* answered 200 and removes exactly that record, every other record unchanged;
\* a later get-by-id or delete-one of an id removed this way is answered 404;
\* a delete-one for an id that matches no record is answered 404 and leaves
\* the table unchanged.
C15_DeleteOne ==
    /\ [][(Answered("delete") /\ lastResp'.status # 500)
             => LET id == lastResp'.id
                IN IF Matching(id) # {}
                     THEN /\ lastResp'.status = 200
                          /\ Cardinality(Matching(id)) = 1
                          /\ table' = table \ Matching(id)
                     ELSE /\ lastResp'.status = 404
                          /\ table' = table]_vars
    /\ [][((Answered("findOne") \/ Answered("delete"))
              /\ lastResp'.status # 500 /\ lastResp'.id \in gone)
             => lastResp'.status = 404]_vars

\* C16: a get-by-id that the data-access layer serves is answered 200 with the
\* stored record when a record with that id exists and 404 when none exists;
\* get-by-id and list leave the table unchanged whatever they answer.
C16_GetById ==
    /\ [][(Answered("findOne") /\ lastResp'.status # 500)
             => LET id == lastResp'.id
                IN IF Matching(id) # {}
                     THEN /\ lastResp'.status = 200
                          /\ lastResp'.body.kind = "record"
                          /\ \E t \in Matching(id) : lastResp'.body.recs = <<Rec(t)>>
                     ELSE lastResp'.status = 404]_vars
    /\ [][(Answered("findOne") \/ Answered("findAll"))
             => (table' = table /\ seq' = seq)]_vars

C16_Witness ==
    /\ lastResp.op = "findOne"
    /\ lastResp.status = 200
    /\ Cardinality(table) = 2
    /\ \E t \in table : t.id = lastResp.id /\ lastResp.body.recs = <<Rec(t)>>

\* C17: when the data-access layer fails during a customer operation the
\* response is 500 and its body is the same whatever the error was: the body
\* sent is the one the handler sends for every error of the data-access layer.
C17_ErrorBodyGeneric ==
    [][((\E op \in CustomerOps : Answered(op)) /\ lastResp'.status = 500)
          => \A e \in DbErrors :
                 lastResp'.body = CatchBody(lastResp'.op, lastResp'.id, e)]_vars

----------------------------------------------------------------------------
(* Properties of the startup sequence and of shutdown, checked under Spec *)

\* C4: the customer routes are in the stack only while the sequencer is READY,
\* and a process that has exited after exhausting its retries never registered
\* them.
C4_RoutesOnlyWhenReady ==
    /\ routesRegistered => SeqState = "READY"
    /\ exitCode = 1 => ~routesRegistered

\* C5: at most 10 connection attempts are made; the failure of the 10th attempt
\* exits with status 1 without scheduling a retry, and status 1 is never the
\* exit status after fewer than 10 failed attempts.
C5_TenAttempts ==
    /\ [](/\ retries <= 10
          /\ failures <= 10
          /\ exitCode = 1 => (failures = 10 /\ retries = 10 /\ retryTimer = NoTimer
                              /\ conn = "idle"))
    /\ [][(failures' = failures + 1 /\ failures' = 10)
             => (exitCode' = 1 /\ retryTimer' = NoTimer /\ delays' = delays)]_vars

C5_Witness == exitCode = 1 /\ failures = 10

\* C6: when the attempt that follows k failed attempts (k in 0..9) succeeds,
\* dbConnected becomes true and the process does not exit; READY is never
\* followed by the exit of the retry loop.
C6_SuccessReachesReady ==
    /\ [][(conn = "syncing" /\ conn' = "idle" /\ failures' = failures)
             => (dbConnected' /\ exitCode' = Running /\ failures \in 0..9
                 /\ retries = failures + 1)]_vars
    /\ [](dbConnected => exitCode # 1 /\ retryTimer = NoTimer)

C6_Witness == dbConnected /\ failures = 9 /\ SeqState = "READY"

\* C7: the retry after the failure of attempt n (1 <= n <= 9) is scheduled
\* with delay 5000, 10000, 15000, 20000, 25000, 30000, 30000, 30000, 30000 for
\* n = 1..9 and runs when that delay has elapsed; the delays never decrease
\* and never exceed 30000.
ClaimedDelays == <<5000, 10000, 15000, 20000, 25000, 30000, 30000, 30000, 30000>>

C7_BackoffDelays ==
    /\ [](/\ Len(delays) = Min(failures, 9)
          /\ \A n \in 1..Len(delays) : delays[n] = ClaimedDelays[n]
          /\ \A n \in 1..Len(delays), m \in 1..Len(delays) :
                 n <= m => (delays[n] <= delays[m] /\ delays[m] <= 30000)
          /\ retryTimer # NoTimer => retryTimer <= delays[Len(delays)])
    /\ [][/\ (retryTimer = NoTimer /\ retryTimer' # NoTimer)
                => (retryTimer' = ClaimedDelays[retries] /\ failures' = retries)
          /\ retries' # retries => (retries' = retries + 1 /\ retryTimer = 0)]_vars

C7_Witness == Len(delays) = 9 /\ retries = 10

\* C8: after SIGTERM the process ends only with exit status 0 and with every
\* request that was in flight answered.
C8_GracefulShutdown ==
    (closing /\ exitCode # Running) => (exitCode = 0 /\ inflight = {})

\* C18: every error of the data-access layer is caught in the handler: each
\* request handled receives exactly one response, with a status from 200, 201,
\* 400, 404, 500, and the step that answers it leaves the process running.
C18_OneResponseNoExit ==
    /\ [](nAccepted = nResp + Cardinality(inflight))
    /\ [][nResp' # nResp
             => /\ nResp' = nResp + 1
                /\ \E r \in inflight :
                       /\ inflight' = inflight \ {r}
                       /\ lastResp'.rq = r.rq
                       /\ lastResp'.op = r.op
                /\ lastResp'.status \in {200, 201, 400, 404, 500}
                /\ exitCode = Running
                /\ exitCode' = Running]_vars
    /\ [][inflight \ inflight' # {} => nResp' = nResp + 1]_vars

C18_Witness ==
    /\ lastResp.op \in CustomerOps
    /\ lastResp.status = 500
    /\ nResp = 1
    /\ exitCode = Running

\* C19: while the process runs, a GET / is answered, and answered 200 with
\* the health body, in every state: before the customer routes are registered,
\* while the database is unreachable or being retried, and after READY; a
\* customer request answered before the routes are registered gets 404.
C19_HealthAlways200 ==
    /\ []((exitCode = Running /\ \E r \in inflight : r.op = "health")
             => ENABLED Health)
    /\ [][Answered("health")
             => /\ lastResp'.status = 200
                /\ lastResp'.body = Body("health", "Customer Management API", <<>>, 0)]_vars
    /\ [][((\E op \in CustomerOps : Answered(op)) /\ ~routesRegistered)
             => lastResp'.status = 404]_vars

C19_Witness ==
    /\ lastResp.op = "health"
    /\ lastResp.status = 200
    /\ ~routesRegistered
    /\ ~dbConnected
    /\ failures > 0
    /\ retryTimer # NoTimer

\* moves of the sequencer: within one attempt AUTHENTICATING, SYNCING, READY in
\* that order, a failed attempt back to CONNECTING (retry) or to FAILED, and
\* CONNECTING to AUTHENTICATING when the next attempt starts
SeqMoves ==
    {<<"CONNECTING", "AUTHENTICATING">>, <<"AUTHENTICATING", "SYNCING">>,
     <<"SYNCING", "READY">>, <<"AUTHENTICATING", "CONNECTING">>,
     <<"SYNCING", "CONNECTING">>, <<"AUTHENTICATING", "FAILED">>,
     <<"SYNCING", "FAILED">>}

\* C20: when every authenticate and sync call settles and every timer fires,
\* the sequencer eventually reaches READY or FAILED; FAILED is terminal; the
\* states are visited only in the order CONNECTING, AUTHENTICATING, SYNCING,
\* READY within one attempt.
C20_SequencerTerminates ==
    /\ <>(SeqState \in {"READY", "FAILED"})
    /\ [][exitCode # 1]_vars
    /\ [][SeqState' # SeqState => <<SeqState, SeqState'>> \in SeqMoves]_vars

\* C20 as amended: the sequencer eventually reaches READY or FAILED unless the
\* process has exited with status 0 after a SIGTERM before that.
C20_SequencerTerminatesOrShutdown ==
    /\ <>(SeqState \in {"READY", "FAILED"} \/ exitCode = 0)
    /\ [][exitCode # 1]_vars
    /\ [][SeqState' # SeqState => <<SeqState, SeqState'>> \in SeqMoves]_vars
    /\ [](exitCode = 0 => closing)

C20_Witness ==
    /\ exitCode = 0
    /\ SeqState = "AUTHENTICATING"
    /\ failures > 0

\* C21: an error that escapes the layer that raised it is answered by the
\* fallback error handler, 500 with {message: 'Internal Server Error'}; this
\* holds for errors raised by the customer routes too.
C21_FallbackAnswersEscapedErrors ==
    [][((\E op \in FaultOps : Answered(op))
           /\ \E i \in 1..Len(Stack) : Stack[i] = RaisedAt(lastResp'.op))
          => /\ lastResp'.status = 500
             /\ lastResp'.body = FallbackBody]_vars

\* C22: a rejected sync after a resolved authenticate is treated exactly like a
\* rejected authenticate: it counts against the same attempt budget, schedules
\* the retry with the delay min(5000 * attempt, 30000) (or exits with status 1
\* at attempt 10), leaves dbConnected false, and the retry starts again with
\* authenticate.
C22_SyncFailureLikeAuthFailure ==
    /\ [][failures' = failures + 1
             => /\ conn \in {"authenticating", "syncing"}
                /\ conn' = "idle"
                /\ ~dbConnected
                /\ ~dbConnected'
                /\ retries' = retries
                /\ IF retries < 10
                     THEN /\ retryTimer' = Min(5000 * retries, 30000)
                          /\ exitCode' = Running
                     ELSE /\ retryTimer' = NoTimer
                          /\ exitCode' = 1]_vars
    /\ [][retries' # retries
             => /\ failedIn \in {"authenticating", "syncing"}
                /\ retries' = retries + 1
                /\ conn' = "authenticating"
                /\ ~dbConnected']_vars
    /\ [](failures = (IF failedIn = "none" THEN retries - 1 ELSE retries))

C22_Witness ==
    /\ failedIn = "syncing"
    /\ retries = 7
    /\ retryTimer = 30000
    /\ ~dbConnected
    /\ exitCode = Running

\* C23: in every state 0 <= retries <= 10 and a connection attempt and a retry
\* timer are never pending together; once dbConnected is true it stays true,
\* and no further attempt is started nor retry scheduled.
C23_AttemptInvariants ==
    /\ [](/\ retries \in 0..10
          /\ ~(conn # "idle" /\ retryTimer # NoTimer)
          /\ dbConnected => (conn = "idle" /\ retryTimer = NoTimer))
    /\ [][dbConnected
             => /\ dbConnected'
                /\ retries' = retries
                /\ conn' = "idle"
                /\ retryTimer' = NoTimer
                /\ failures' = failures]_vars

C23_Witness ==
    /\ dbConnected
    /\ retries = 10
    /\ routesRegistered
    /\ lastResp.status = 201

\* C24: once SIGTERM has been received the process never exits with status 1.
C24_NoFailureExitAfterSigterm ==
    closing => exitCode # 1

\* C25: each customer handler makes at most one data-access call per request
\* and keeps nothing between requests, so requests in flight together have the
\* outcome of the serial order in which their calls settled: the database
\* changes only in the one step in which a request's call settles, that step
\* builds the request's response and touches no other request's, and the
\* response sent later is the one built then, whatever ran in between.
C25_SerialOutcome ==
    /\ [][outbox' \ outbox # {}
             => \E r \in Unserved, o \in outbox' :
                    /\ o.rq = r.rq
                    /\ o.op = r.op
                    /\ outbox' = outbox \cup {o}
                    /\ inflight' = inflight
                    /\ lastResp' = lastResp]_vars
    /\ [][dbVars' # dbVars => Cardinality(outbox' \ outbox) = 1]_vars
    /\ [][nResp' # nResp
             => /\ lastResp' \in outbox
                /\ outbox' = outbox \ {lastResp'}
                /\ inflight' = {r \in inflight : r.rq # lastResp'.rq}
                /\ dbVars' = dbVars]_vars
    /\ [](\A o \in outbox, u \in outbox : o.rq = u.rq => o = u)
    /\ [](nAccepted = nResp + Cardinality(inflight))

C25_Witness ==
    /\ lastResp.op = "findAll"
    /\ lastResp.status = 200
    /\ Len(lastResp.body.recs) = 1
    /\ \E o \in outbox : o.op = "create" /\ o.status = 201

----------------------------------------------------------------------------
(* Subnet addressing *)

\* every instance of the three subnet resources exists
Applied ==
    /\ Len(public) = Len(availability_zones)
    /\ Len(private) = Len(availability_zones)
    /\ Len(database) = Len(availability_zones)

CidrsOf(subnets) == [i \in 1..Len(subnets) |-> subnets[i].cidr_block]

\* C26: with vpc_cidr 10.0.0.0/16 and three availability zones the public
\* subnets are 10.0.1.0/24, 10.0.2.0/24, 10.0.3.0/24, the private subnets
\* 10.0.11.0/24, 10.0.12.0/24, 10.0.13.0/24 and the database subnets
\* 10.0.21.0/24, 10.0.22.0/24, 10.0.23.0/24
C26_DevSubnetCidrs ==
    (vpc_cidr = <<10, 0, 0, 0, 16>> /\ Len(availability_zones) = 3 /\ Applied) =>
        /\ CidrsOf(public) = << <<10, 0, 1, 0, 24>>, <<10, 0, 2, 0, 24>>, <<10, 0, 3, 0, 24>> >>
        /\ CidrsOf(private) = << <<10, 0, 11, 0, 24>>, <<10, 0, 12, 0, 24>>, <<10, 0, 13, 0, 24>> >>
        /\ CidrsOf(database) = << <<10, 0, 21, 0, 24>>, <<10, 0, 22, 0, 24>>, <<10, 0, 23, 0, 24>> >>

\* the subnets that exist, each named by its resource and count.index
Created ==
    {<<"public", i>> : i \in 1..Len(public)}
        \cup {<<"private", i>> : i \in 1..Len(private)}
        \cup {<<"database", i>> : i \in 1..Len(database)}

CidrOfSubnet(k) ==
    IF k[1] = "public" THEN public[k[2]].cidr_block
    ELSE IF k[1] = "private" THEN private[k[2]].cidr_block
    ELSE database[k[2]].cidr_block

FirstAddr(c) == AddrOf(c)
LastAddr(c) == AddrOf(c) + Pow2(32 - c[5]) - 1

\* two blocks share an address
Overlap(c, d) == FirstAddr(c) <= LastAddr(d) /\ FirstAddr(d) <= LastAddr(c)

\* C27: for every accepted availability_zones list, the subnets the module
\* creates (public index i, private index i+10, database index i+20) have
\* pairwise distinct CIDR blocks that do not overlap
C27_SubnetCidrsDisjoint ==
    \A j \in Created, k \in Created :
        j # k => /\ CidrOfSubnet(j) # CidrOfSubnet(k)
                 /\ ~Overlap(CidrOfSubnet(j), CidrOfSubnet(k))

====
